---- MODULE Spec2Model ----
(***************************************************************************)
(* Model of the ActNexus PDF ingestion pipeline                            *)
(* (backend/app/services/pdf_processor.py and the services it drives).     *)
(*                                                                         *)
(* Every `await` of a handler is a point where another coroutine can run,  *)
(* so a handler is split at the awaits between its reads and its writes.   *)
(*                                                                         *)
(* Naming.  pdf_processor.py addresses LivroService, AtoService and        *)
(* AiUsageService through the names get_by_id / update / create and with   *)
(* plain dicts; the services define get_livro_by_id / update_livro /       *)
(* create_ato and take schema objects.  The model binds each call to the   *)
(* service method of the same purpose and each dict key to the field of    *)
(* the same meaning.  The Livro row itself (app/models/livro.py) is not    *)
(* part of the sources: its processing status is one field, read as        *)
(* livro.status by the pipeline and written by update(status=...) and by   *)
(* update_processing_status.                                               *)
(***************************************************************************)
EXTENDS Integers, Sequences, FiniteSets, TLC

\* ---------------------------------------------------------------- bounds
MaxRuns == 2
MaxReqs == 2
MaxActs == 2
MaxNumero == 1
MaxTime == 3
MaxSweeps == 2
MaxDays == 2
MaxDepth == 2
MaxWidth == 2

\* ------------------------------------------------------------- constants
Livros == {1}
LivroIds == {1, 2}
Runs == 1..MaxRuns
Reqs == 1..MaxReqs
MaxLogs == MaxRuns + 1
LogIds == 1..MaxLogs
Sweepers == 1..MaxSweeps

SemPdf == "sem_pdf"
Pendente == "pendente"
Processando == "processando"
Concluido == "concluido"
Erro == "erro"
valid_statuses == {Pendente, Processando, Concluido, Erro}
StatusLivro == {SemPdf} \cup valid_statuses

NoMsg == ""
MsgIA == "Erro no processamento de IA"
MsgBG == "Erro no processamento"
MsgManual == "manual"

LogIniciado == "iniciado"
LogConcluido == "concluido"
LogErro == "erro"
LogNone == "none"

AIFailures == {"timeout", "unavailable", "upstream", "shape"}

\* one act record of the extraction response, by its act number; 0 stands
\* for a record that AtoCreate rejects (numero or tipo missing or empty)
Malformed == 0
AtoData == 0..MaxNumero

RECURSIVE SeqsUpTo(_, _)
SeqsUpTo(S, n) ==
    IF n = 0 THEN {<<>>}
    ELSE LET shorter == SeqsUpTo(S, n - 1)
         IN shorter \cup {Append(s, x) : s \in {t \in shorter : Len(t) = n - 1}, x \in S}

\* what langflow_service.process_pdf hands back on success
Responses == [meta_ok : {TRUE}, atos : SeqsUpTo(AtoData, MaxActs)]
                 \cup [meta_ok : {FALSE}, atos : {<<>>}]

VARIABLES livros, atos, objects, req, resp, run, ledger, nextLog, now, sweep,
          dados, call

vars == <<livros, atos, objects, req, resp, run, ledger, nextLog, now, sweep,
          dados, call>>

\* ------------------------------------------------------------ Livro row
NoMeta == [kind |-> "none", error |-> NoMsg]

LivroInit == [status |-> SemPdf, url_pdf_original |-> FALSE,
              metadados_pdf |-> NoMeta, total_atos_extraidos |-> -1]

\* update_processing_status that clears the processing metadata of the
\* row when it records an error
update_processing_status_clears(l, st, metadata, error_message) ==
    LET l1 == [l EXCEPT !.status = st]
        l2 == IF metadata # NoMsg
              THEN [l1 EXCEPT !.metadados_pdf = [kind |-> "str", error |-> NoMsg]]
              ELSE l1
    IN IF error_message # NoMsg
       THEN IF l2.metadados_pdf.kind = "str"
            THEN [ok |-> FALSE, livro |-> l]
            ELSE [ok |-> TRUE,
                  livro |-> [l2 EXCEPT !.metadados_pdf = [kind |-> "dict",
                                                          error |-> error_message],
                                       !.total_atos_extraidos = -1]]
       ELSE [ok |-> TRUE, livro |-> l2]

\* LivroService.update_processing_status: the value the row takes and
\* whether the call returns (ok) or raises after a rollback.
update_processing_status(l, st, metadata, error_message) ==
    LET l1 == [l EXCEPT !.status = st]
        l2 == IF metadata # NoMsg
              THEN [l1 EXCEPT !.metadados_pdf = [kind |-> "str", error |-> NoMsg]]
              ELSE l1
    IN IF error_message # NoMsg
       THEN IF l2.metadados_pdf.kind = "str"
            THEN [ok |-> FALSE, livro |-> l]
            ELSE [ok |-> TRUE,
                  livro |-> [l2 EXCEPT !.metadados_pdf = [kind |-> "dict",
                                                          error |-> error_message]]]
       ELSE [ok |-> TRUE, livro |-> l2]

\* ---------------------------------------------------------------- state
\* a request handler is idle or suspended between its reads and its writes
ReqIdle == [pc |-> "idle", kind |-> "none", livro_id |-> 1, force |-> FALSE,
            process_immediately |-> FALSE]

\* the HTTP response sent by the step just taken, if it sent one
NoResp == [kind |-> "none", livro_id |-> 0, force |-> FALSE, http |-> 0]
Response(kind, id, force, http) ==
    [kind |-> kind, livro_id |-> id, force |-> force, http |-> http]

\* reports counts the writes of a terminal status ("concluido", "erro")
\* the run has made to its Livro
RunFree == [pc |-> "free", livro_id |-> 1, ai_log |-> 0, result |-> "none",
            meta_ok |-> TRUE, atos |-> <<>>, i |-> 1, criados |-> 0, reports |-> 0]

\* a task that has returned keeps nothing but the ledger row it created
Returned(rr) == [RunFree EXCEPT !.pc = "done", !.livro_id = rr.livro_id,
                                !.ai_log = rr.ai_log]

NoLog == [status |-> LogNone, mensagem_erro |-> FALSE, created_at |-> 0]

\* what the last retention sweep of a caller computed and returned
SweepIdle == [pc |-> "idle", calls |-> 0, cutoff |-> 0, logs_to_delete |-> 0]

\* the payload columns of a ledger row (dados_entrada, resposta); None
\* until a caller passes a payload
None == [t |-> "none", v |-> "", items |-> <<>>]
NoDados == [dados_entrada |-> None, resposta |-> None]

\* the last application of one of the pure helpers: its argument and
\* what it returned
NoCall == [fn |-> "none", arg |-> None, ret |-> None]

Init ==
    /\ livros = [b \in Livros |-> LivroInit]
    /\ atos = [b \in Livros |-> [n \in 1..MaxNumero |-> 0]]
    /\ objects = {}
    /\ req = [q \in Reqs |-> ReqIdle]
    /\ resp = NoResp
    /\ run = [r \in Runs |-> RunFree]
    /\ ledger = [id \in LogIds |-> NoLog]
    /\ nextLog = 1
    /\ now = 0
    /\ sweep = [s \in Sweepers |-> SweepIdle]
    /\ dados = [id \in LogIds |-> NoDados]
    /\ call = NoCall

FreeRuns == {r \in Runs : run[r].pc = "free"}
\* BackgroundTasks.add_task: the next unused run
NextRun == CHOOSE r \in FreeRuns : \A r2 \in FreeRuns : r <= r2

add_task(id) == [run EXCEPT ![NextRun] = [RunFree EXCEPT !.pc = "scheduled", !.livro_id = id]]

\* ------------------------------------------------- request handlers
\* a request that will hand a task to BackgroundTasks needs an unused run
NeedsRun(q) == req[q].pc = "commit" /\ (req[q].kind = "reprocess" \/ req[q].process_immediately)
CanSchedule == Cardinality(FreeRuns) > Cardinality({q \in Reqs : NeedsRun(q)})

\* handlers are interchangeable: a new request is served by the first idle one
IdleReq(q) == req[q].pc = "idle" /\ \A q2 \in Reqs : req[q2].pc = "idle" => q <= q2

\* the checks of upload without the lookup of the Livro
upload_check_no_lookup(id, is_pdf) ==
    IF ~is_pdf THEN 400 ELSE 0

\* the two checks upload_and_process_pdf makes, lines 41-54: the file is
\* a PDF, the Livro exists
upload_check(id, is_pdf) ==
    IF ~is_pdf THEN 400
    ELSE IF id \notin Livros THEN 404
    ELSE 0

\* upload_and_process_pdf up to the await of minio_service.upload_file:
\* content-type check and the lookup of the Livro
UploadBegin(q, id, is_pdf, immediate) ==
    /\ IdleReq(q)
    /\ immediate => CanSchedule
    /\ LET http == upload_check(id, is_pdf)
       IN IF http = 0
          THEN /\ req' = [req EXCEPT ![q] =
                            [ReqIdle EXCEPT !.pc = "commit", !.kind = "upload",
                                            !.livro_id = id,
                                            !.process_immediately = immediate]]
               /\ resp' = NoResp
          ELSE resp' = Response("upload", id, FALSE, http) /\ UNCHANGED req
    /\ UNCHANGED <<livros, atos, objects, run, ledger, nextLog, now, sweep, dados, call>>

\* upload_and_process_pdf from the object-store upload to the return: the
\* object is stored, the Livro gets the object name and status
\* "processando", and the background task is added when requested
UploadCommit(q) ==
    /\ req[q].pc = "commit" /\ req[q].kind = "upload"
    /\ LET id == req[q].livro_id IN
       /\ objects' = objects \cup {id}
       /\ livros' = [b \in Livros |->
                       IF b = id THEN [livros[b] EXCEPT !.status = Processando,
                                                        !.url_pdf_original = TRUE]
                       ELSE livros[b]]
       /\ run' = IF req[q].process_immediately THEN add_task(id) ELSE run
       /\ resp' = Response("upload", id, FALSE, 200)
    /\ req' = [req EXCEPT ![q] = ReqIdle]
    /\ UNCHANGED <<atos, ledger, nextLog, now, sweep, dados, call>>

\* the three checks reprocess_pdf makes on the row it has read
reprocess_check(l, force) ==
    IF ~l.url_pdf_original THEN 400
    ELSE IF l.status = Processando /\ ~force THEN 409
    ELSE 0

\* reprocess_pdf up to the await of update_processing_status: the lookup
\* of the Livro and the checks
ReprocessBegin(q, id, force) ==
    /\ IdleReq(q)
    /\ CanSchedule
    /\ LET http == IF id \notin Livros THEN 404 ELSE reprocess_check(livros[id], force)
       IN IF http = 0
          THEN /\ req' = [req EXCEPT ![q] =
                            [ReqIdle EXCEPT !.pc = "commit", !.kind = "reprocess",
                                            !.livro_id = id, !.force = force]]
               /\ resp' = NoResp
          ELSE resp' = Response("reprocess", id, force, http) /\ UNCHANGED req
    /\ UNCHANGED <<livros, atos, objects, run, ledger, nextLog, now, sweep, dados, call>>

\* reprocess_pdf from update_processing_status("processando") to the return
ReprocessCommit(q) ==
    /\ req[q].pc = "commit" /\ req[q].kind = "reprocess"
    /\ LET id == req[q].livro_id
           w == update_processing_status(livros[id], Processando, NoMsg, NoMsg)
       IN IF w.ok
          THEN /\ livros' = [livros EXCEPT ![id] = w.livro]
               /\ run' = add_task(id)
               /\ resp' = Response("reprocess", id, req[q].force, 200)
          ELSE /\ resp' = Response("reprocess", id, req[q].force, 500)
               /\ UNCHANGED <<livros, run>>
    /\ req' = [req EXCEPT ![q] = ReqIdle]
    /\ UNCHANGED <<atos, objects, ledger, nextLog, now, sweep, dados, call>>

\* PUT /livros/{id}/status: the optional error_message is passed as the
\* fourth positional argument, which LivroService names metadata
ManualUpdate(id, new_status, error_message) ==
    /\ id \in Livros
    /\ new_status \in valid_statuses
    /\ LET w == update_processing_status(livros[id], new_status, error_message, NoMsg)
       IN /\ w.ok
          /\ livros' = [livros EXCEPT ![id] = w.livro]
    /\ resp' = NoResp
    /\ UNCHANGED <<atos, objects, req, run, ledger, nextLog, now, sweep, dados, call>>

\* ------------------------------------------------- background run
\* create_log that stores the row with the default of line 86 ("Concluído")
\* whatever status the caller passed
create_log_default(st) ==
    /\ nextLog <= MaxLogs
    /\ st # LogNone
    /\ ledger' = [ledger EXCEPT ![nextLog] =
                    [status |-> LogConcluido, mensagem_erro |-> FALSE, created_at |-> now]]
    /\ nextLog' = nextLog + 1

\* create_log that stores no row
create_log_skipped(st) ==
    /\ st # LogNone
    /\ UNCHANGED <<ledger, nextLog>>

\* AiUsageService.create_log: a new row, stamped with the current time
create_log(st) ==
    /\ nextLog <= MaxLogs
    /\ ledger' = [ledger EXCEPT ![nextLog] =
                    [status |-> st, mensagem_erro |-> FALSE, created_at |-> now]]
    /\ nextLog' = nextLog + 1

\* AiUsageService.update_log: the row takes the status of the update
update_log(id, st, has_msg) ==
    [ledger EXCEPT ![id].status = st, ![id].mensagem_erro = has_msg]

\* process_pdf_background, lines 121-156: the ledger row is created, then
\* the presigned URL is built and the Livro looked up; either of the two
\* can raise (create_presigned_url on any client error, livro.numero when
\* get_livro_by_id returns None), which leads to the outer handler
RunCreateLog(r, ok) ==
    /\ run[r].pc = "scheduled"
    /\ create_log(LogIniciado)
    /\ run' = [run EXCEPT ![r].pc = IF ok THEN "call" ELSE "outer",
                          ![r].ai_log = nextLog]
    /\ resp' = NoResp
    /\ UNCHANGED <<livros, atos, objects, req, now, sweep, dados, call>>

\* lines 161-185: langflow_service.process_pdf returns a response and the
\* ledger row is updated to "concluido"
RunCallAI(r, result) ==
    /\ run[r].pc = "call"
    /\ ledger' = update_log(run[r].ai_log, LogConcluido, FALSE)
    /\ run' = [run EXCEPT ![r].pc = "persist", ![r].result = "ok",
                          ![r].meta_ok = result.meta_ok, ![r].atos = result.atos]
    /\ resp' = NoResp
    /\ UNCHANGED <<livros, atos, objects, req, nextLog, now, sweep, dados, call>>

\* lines 161-166 and 194-206: langflow_service.process_pdf raises one of
\* its errors and the handler of the inner try marks the ledger row "erro"
RunCallAIFails(r, failure) ==
    /\ run[r].pc = "call"
    /\ failure \in AIFailures
    /\ ledger' = update_log(run[r].ai_log, LogErro, TRUE)
    /\ run' = [run EXCEPT ![r].pc = "h_status", ![r].result = "fail"]
    /\ resp' = NoResp
    /\ UNCHANGED <<livros, atos, objects, req, nextLog, now, sweep, dados, call>>

\* _process_langflow_result, lines 240-274: the Livro is updated to
\* "concluido" with total_atos_extraidos = len(atos_data).  The update
\* raises when the extracted book metadata is rejected (validation, or a
\* numero/ano that another Livro holds); the exception is re-raised into
\* the handler of line 194, which marks the ledger row "erro"
RunPersistLivro(r) ==
    /\ run[r].pc = "persist"
    /\ LET id == run[r].livro_id IN
       IF run[r].meta_ok
       THEN /\ livros' = [livros EXCEPT ![id].status = Concluido,
                                        ![id].total_atos_extraidos = Len(run[r].atos)]
            /\ run' = [run EXCEPT ![r] = IF Len(@.atos) = 0 THEN Returned(@)
                                         ELSE [@ EXCEPT !.pc = "atos", !.reports = @ + 1]]
            /\ UNCHANGED ledger
       ELSE /\ ledger' = update_log(run[r].ai_log, LogErro, TRUE)
            /\ run' = [run EXCEPT ![r].pc = "h_status"]
            /\ UNCHANGED livros
    /\ resp' = NoResp
    /\ UNCHANGED <<atos, objects, req, nextLog, now, sweep, dados, call>>

\* AtoService.create_ato up to its commit: AtoCreate validation and the
\* lookup of an act with the same number in the book
AtoRejected(id, a) == a = Malformed \/ atos[id][a] > 0

NextAto(rr) == IF rr.i = Len(rr.atos) THEN Returned(rr)
               ELSE [rr EXCEPT !.pc = "atos", !.i = rr.i + 1]

\* lines 278-301, first half of one iteration: the act is built and
\* checked; a rejected act is logged and the loop continues
RunCheckAto(r) ==
    /\ run[r].pc = "atos"
    /\ LET id == run[r].livro_id
           a == run[r].atos[run[r].i]
       IN run' = [run EXCEPT ![r] = IF AtoRejected(id, a) THEN NextAto(@)
                                    ELSE [@ EXCEPT !.pc = "insert"]]
    /\ resp' = NoResp
    /\ UNCHANGED <<livros, atos, objects, req, ledger, nextLog, now, sweep, dados, call>>

\* the atos table without the uniqueness of (livro_id, numero_ato)
numero_any(id, numeros) == id \in Livros /\ numeros \in Seq(1..MaxNumero)

\* the atos table accepts the rows of a commit when none of their act
\* numbers is held by a row of the book or by another row of the commit
numero_unique(id, numeros) ==
    /\ \A i \in 1..Len(numeros) : atos[id][numeros[i]] = 0
    /\ \A i, j \in 1..Len(numeros) : i # j => numeros[i] # numeros[j]

\* second half: session.add and commit of the act, atos_criados.append; a
\* commit the table rejects is rolled back by create_ato and raised, and
\* the loop logs it and continues with the next act
RunInsertAto(r) ==
    /\ run[r].pc = "insert"
    /\ LET id == run[r].livro_id
           a == run[r].atos[run[r].i]
       IN IF numero_unique(id, <<a>>)
          THEN /\ atos' = [atos EXCEPT ![id][a] = @ + 1]
               /\ run' = [run EXCEPT ![r] = NextAto([@ EXCEPT !.criados = @ + 1])]
          ELSE /\ run' = [run EXCEPT ![r] = NextAto(@)]
               /\ UNCHANGED atos
    /\ resp' = NoResp
    /\ UNCHANGED <<livros, objects, req, ledger, nextLog, now, sweep, dados, call>>

\* lines 208-216: the Livro is marked "erro" and the error is re-raised;
\* an exception of update_processing_status reaches the outer handler too
RunInnerStatus(r) ==
    /\ run[r].pc = "h_status"
    /\ LET id == run[r].livro_id
           w == update_processing_status(livros[id], Erro, NoMsg, MsgIA)
       IN /\ livros' = [livros EXCEPT ![id] = w.livro]
          /\ run' = [run EXCEPT ![r].pc = "outer",
                                ![r].reports = @ + (IF w.ok THEN 1 ELSE 0)]
    /\ resp' = NoResp
    /\ UNCHANGED <<atos, objects, req, ledger, nextLog, now, sweep, dados, call>>

\* an outer handler that hands the failed run back to the scheduler
RunOuterStatus_retry(r) ==
    /\ run[r].pc = "outer"
    /\ nextLog <= MaxLogs
    /\ LET id == run[r].livro_id
           w == update_processing_status(livros[id], Erro, NoMsg, MsgBG)
       IN livros' = [livros EXCEPT ![id] = w.livro]
    /\ run' = [run EXCEPT ![r] = [RunFree EXCEPT !.pc = "scheduled", !.livro_id = run[r].livro_id]]
    /\ resp' = NoResp
    /\ UNCHANGED <<atos, objects, req, ledger, nextLog, now, sweep, dados, call>>

\* lines 218-230: the outer handler marks the Livro "erro" (again); a
\* failure of that write is logged and the run returns
RunOuterStatus(r) ==
    /\ run[r].pc = "outer"
    /\ LET id == run[r].livro_id
           w == update_processing_status(livros[id], Erro, NoMsg, MsgBG)
       IN livros' = [livros EXCEPT ![id] = w.livro]
    /\ run' = [run EXCEPT ![r] = Returned(@)]
    /\ resp' = NoResp
    /\ UNCHANGED <<atos, objects, req, ledger, nextLog, now, sweep, dados, call>>

RunStep(r) ==
    \/ \E ok \in BOOLEAN : RunCreateLog(r, ok)
    \/ \E result \in Responses : RunCallAI(r, result)
    \/ \E f \in AIFailures : RunCallAIFails(r, f)
    \/ RunPersistLivro(r)
    \/ RunCheckAto(r)
    \/ RunInsertAto(r)
    \/ RunInnerStatus(r)
    \/ RunOuterStatus(r)

Next ==
    \/ \E q \in Reqs, id \in LivroIds, is_pdf \in BOOLEAN, immediate \in BOOLEAN :
          UploadBegin(q, id, is_pdf, immediate)
    \/ \E q \in Reqs : UploadCommit(q)
    \/ \E q \in Reqs, id \in LivroIds, force \in BOOLEAN : ReprocessBegin(q, id, force)
    \/ \E q \in Reqs : ReprocessCommit(q)
    \/ \E id \in Livros, st \in valid_statuses, m \in {NoMsg, MsgManual} :
          ManualUpdate(id, st, m)
    \/ \E r \in Runs : RunStep(r)

Spec == Init /\ [][Next]_vars

\* Scheduling: a handler that awaits is resumed, BackgroundTasks runs every
\* task it was given, and each await of a run returns or raises (the AI
\* call returns, fails or times out after 300 s).
LiveSpec ==
    /\ Init /\ [][Next]_vars
    /\ \A q \in Reqs : WF_vars(UploadCommit(q) \/ ReprocessCommit(q))
    /\ \A r \in Runs : WF_vars(RunStep(r))

\* ------------------------------------------------- acts added in bulk
\* LivroService.add_atos_processados: the acts of the list are added to
\* the session without a lookup and committed together; a commit the
\* table rejects is rolled back
add_atos_processados(id, numeros) ==
    /\ id \in Livros
    /\ atos' = IF numero_unique(id, numeros)
               THEN [atos EXCEPT ![id] = [n \in 1..MaxNumero |->
                       @[n] + Cardinality({i \in 1..Len(numeros) : numeros[i] = n})]]
               ELSE atos
    /\ resp' = NoResp
    /\ UNCHANGED <<livros, objects, req, run, ledger, nextLog, now, sweep, dados, call>>

AtosNext ==
    \/ Next
    \/ \E id \in Livros, numeros \in SeqsUpTo(1..MaxNumero, MaxActs) :
          add_atos_processados(id, numeros)

AtosSpec == Init /\ [][AtosNext]_vars

\* ------------------------------------------------- processing status
\* a status read that writes the metadata default back to the row
GetStatus_writes_default(id) ==
    /\ resp' = Response("status", id, FALSE, IF id \in Livros THEN 200 ELSE 404)
    /\ livros' = [b \in Livros |-> IF b = id THEN [livros[b] EXCEPT !.metadados_pdf = NoMeta]
                                    ELSE livros[b]]
    /\ UNCHANGED <<atos, objects, req, run, ledger, nextLog, now, sweep, dados, call>>

\* GET /livros/{id}/processing-status, get_processing_status: the Livro,
\* the statistics of its acts and its ledger rows are read and returned
GetStatus(id) ==
    /\ resp' = Response("status", id, FALSE, IF id \in Livros THEN 200 ELSE 404)
    /\ UNCHANGED <<livros, atos, objects, req, run, ledger, nextLog, now, sweep, dados, call>>

StatusNext ==
    \/ Next
    \/ \E id \in LivroIds : GetStatus(id)

StatusSpec == Init /\ [][StatusNext]_vars


\* ------------------------------------------------- usage ledger retention
\* the WHERE clause of both statements of cleanup_old_logs
older_or_equal(created_at, cutoff_date) == created_at <= cutoff_date

older(created_at, cutoff_date) == created_at < cutoff_date

Rows == {id \in LogIds : ledger[id].status # LogNone}
OldRows(cutoff_date) == {id \in Rows : older(ledger[id].created_at, cutoff_date)}

\* AiUsageService.cleanup_old_logs(days_to_keep), not interleaved with
\* another sweep: the rows before the cutoff are counted, deleted when
\* there is at least one, and the count is returned
cleanup_old_logs(s, days_to_keep) ==
    /\ \A s2 \in Sweepers : sweep[s2].pc = "idle"
    /\ LET cutoff_date == now - days_to_keep
           logs_to_delete == Cardinality(OldRows(cutoff_date))
       IN /\ ledger' = IF logs_to_delete > 0
                       THEN [id \in LogIds |-> IF id \in OldRows(cutoff_date) THEN NoLog
                                               ELSE ledger[id]]
                       ELSE ledger
          /\ sweep' = [sweep EXCEPT ![s] = [pc |-> "idle", calls |-> (@.calls + 1) % 2,
                                            cutoff |-> cutoff_date,
                                            logs_to_delete |-> logs_to_delete]]
    /\ UNCHANGED <<livros, atos, objects, req, resp, run, nextLog, now, dados, call>>

\* any caller of the ledger (the pipeline, the AI proxy endpoints) adds a row
LedgerCreate(st) ==
    /\ create_log(st)
    /\ UNCHANGED <<livros, atos, objects, req, resp, run, now, sweep, dados, call>>

\* time passes (datetime.now() of create_log and of cleanup_old_logs)
Tick ==
    /\ now < MaxTime
    /\ now' = now + 1
    /\ UNCHANGED <<livros, atos, objects, req, resp, run, ledger, nextLog, sweep, dados, call>>

SweepNext ==
    \/ Tick
    \/ \E st \in {LogIniciado, LogConcluido, LogErro} : LedgerCreate(st)
    \/ \E s \in Sweepers, d \in 1..MaxDays : cleanup_old_logs(s, d)

SweepSpec == Init /\ [][SweepNext]_vars

\* ---------------------------------------------- overlapping retention sweeps
\* Each DELETE /usage/logs/cleanup request runs cleanup_old_logs in a
\* session of its own.  The count (lines 481-485) and the delete (lines
\* 489-493) are two awaited statements, each of which sees the rows that
\* are committed when it executes.

\* lines 478-485: the cutoff is computed and the rows before it counted
CleanupCount(s, days_to_keep) ==
    /\ sweep[s].pc = "idle"
    /\ LET cutoff_date == now - days_to_keep
       IN sweep' = [sweep EXCEPT ![s] = [pc |-> "counted", calls |-> @.calls,
                                         cutoff |-> cutoff_date,
                                         logs_to_delete |-> Cardinality(OldRows(cutoff_date))]]
    /\ UNCHANGED <<livros, atos, objects, req, resp, run, ledger, nextLog, now, dados, call>>

\* lines 487-497: when the count was positive the rows that are before the
\* cutoff now are deleted and the transaction committed; the count is
\* returned
CleanupDelete(s) ==
    /\ sweep[s].pc = "counted"
    /\ ledger' = IF sweep[s].logs_to_delete > 0
                 THEN [id \in LogIds |-> IF id \in OldRows(sweep[s].cutoff) THEN NoLog
                                         ELSE ledger[id]]
                 ELSE ledger
    /\ sweep' = [sweep EXCEPT ![s].pc = "idle", ![s].calls = (@ + 1) % 2]
    /\ UNCHANGED <<livros, atos, objects, req, resp, run, nextLog, now, dados, call>>

ConcSweepNext ==
    \/ Tick
    \/ \E st \in {LogIniciado, LogConcluido, LogErro} : LedgerCreate(st)
    \/ \E s \in Sweepers, d \in 1..MaxDays : CleanupCount(s, d)
    \/ \E s \in Sweepers : CleanupDelete(s)

ConcSweepSpec == Init /\ [][ConcSweepNext]_vars

\* ------------------------------------------------- sanitization
\* A string that the code inspects character by character is a sequence of
\* characters.  A payload is a JSON value: a scalar, a mapping (entries in
\* insertion order, keys unique) or a list.
UpperCase == <<"A", "B", "C", "D", "E", "F", "G", "H", "I", "J", "K", "L", "M", "N", "O", "P", "Q", "R", "S", "T", "U", "V", "W", "X", "Y", "Z">>
LowerCase == <<"a", "b", "c", "d", "e", "f", "g", "h", "i", "j", "k", "l", "m", "n", "o", "p", "q", "r", "s", "t", "u", "v", "w", "x", "y", "z">>

\* str.lower()
lower_char(c) ==
    IF \E i \in 1..Len(UpperCase) : UpperCase[i] = c
    THEN LowerCase[CHOOSE i \in 1..Len(UpperCase) : UpperCase[i] = c]
    ELSE c
lower(str) == [i \in 1..Len(str) |-> lower_char(str[i])]

\* Python's `field in key` on strings
Contains(str, field) ==
    \E i \in 0..(Len(str) - Len(field)) : SubSeq(str, i + 1, i + Len(field)) = field

sensitive_fields == {
    <<"p", "a", "s", "s", "w", "o", "r", "d">>,
    <<"s", "e", "n", "h", "a">>,
    <<"t", "o", "k", "e", "n">>,
    <<"k", "e", "y">>,
    <<"s", "e", "c", "r", "e", "t">>,
    <<"c", "p", "f">>,
    <<"c", "n", "p", "j">>,
    <<"r", "g">>,
    <<"p", "a", "s", "s", "p", "o", "r", "t">>,
    <<"c", "r", "e", "d", "i", "t", "_", "c", "a", "r", "d">>,
    <<"c", "a", "r", "t", "a", "o">>,
    <<"a", "c", "c", "o", "u", "n", "t">>,
    <<"c", "o", "n", "t", "a">>}

Val(x) == [t |-> "val", v |-> x, items |-> <<>>]
Dict(entries) == [t |-> "dict", v |-> "", items |-> entries]
List(entries) == [t |-> "list", v |-> "", items |-> entries]
\* an entry of a mapping; an item of a list is an entry without a key
Entry(k, val) == [k |-> k, val |-> val]
Item(val) == Entry(<<>>, val)

REDACTED == Val("[REDACTED]")

\* the test of line 28 without key.lower()
is_sensitive_cased(key) == \E field \in sensitive_fields : Contains(key, field)

\* line 28: any(field in key.lower() for field in sensitive_fields)
is_sensitive(key) == \E field \in sensitive_fields : Contains(lower(key), field)

RECURSIVE _sanitize_data(_)
_sanitize_data(data) ==
    IF data.t = "dict"
    THEN Dict([i \in 1..Len(data.items) |->
                 LET key == data.items[i].k
                     value == data.items[i].val
                 IN IF is_sensitive(key) THEN Entry(key, REDACTED)
                    ELSE IF value.t \in {"dict", "list"}
                         THEN Entry(key, _sanitize_data(value))
                         ELSE Entry(key, value)])
    ELSE IF data.t = "list"
         THEN List([i \in 1..Len(data.items) |-> Item(_sanitize_data(data.items[i].val))])
         ELSE data

\* the payloads the helpers are applied to
KeyNome == <<"n", "o", "m", "e">>
KeyCPF == <<"C", "P", "F">>
KeyApiKey == <<"a", "p", "i", "_", "K", "e", "y">>
Keys == {KeyNome, KeyCPF, KeyApiKey}
Scalars == {Val("x")}
DistinctKeys(ks) == \A i, j \in 1..Len(ks) : i # j => ks[i] # ks[j]
FlatDicts == {Dict([i \in 1..Len(ks) |-> Entry(ks[i], Val("x"))]) :
                 ks \in {q \in SeqsUpTo(Keys, MaxWidth) : DistinctKeys(q)}}
FlatLists == {List([i \in 1..n |-> Item(Val("x"))]) : n \in 0..MaxWidth}
Wrap(V) ==
    {Dict(<<Entry(k, d)>>) : k \in Keys, d \in V}
       \cup {List(<<Item(d)>>) : d \in V}
       \cup {Dict(<<Entry(ks[1], d), Entry(ks[2], Val("x"))>>) :
                ks \in {q \in Keys \X Keys : q[1] # q[2]}, d \in V}
RECURSIVE PayloadsUpTo(_)
PayloadsUpTo(n) ==
    IF n = 0 THEN Scalars \cup FlatDicts \cup FlatLists
    ELSE Wrap(PayloadsUpTo(n - 1)) \cup PayloadsUpTo(n - 1)
Payloads == PayloadsUpTo(MaxDepth)

\* AiUsageService._sanitize_data applied to a payload
SanitizeData(data) ==
    /\ call = NoCall
    /\ call' = [fn |-> "_sanitize_data", arg |-> data, ret |-> _sanitize_data(data)]
    /\ UNCHANGED <<livros, atos, objects, req, resp, run, ledger, nextLog, now, sweep, dados>>

\* ------------------------------------------- payload columns of the ledger
\* the payloads callers hand to the ledger (Dict[str, Any])
LedgerPayloads ==
    {Dict(<<Entry(k, d)>>) : k \in {KeyNome, KeyCPF},
                             d \in {Val("x"), Dict(<<Entry(KeyCPF, Val("x"))>>)}}

\* the name under which a response payload reaches update_log: the key
\* update_log tests (line 137), the key every caller passes
\* (pdf_processor.py:179, ia_proxy.py:78), the field of AiUsageLogUpdate
ResponseKeys == {"resposta", "dados_resposta", "response_data"}

\* create_log, lines 69-92: the payloads of log_data are sanitized and the
\* row is stored
BeginEntry(dados_entrada) ==
    /\ create_log(LogIniciado)
    /\ dados' = [dados EXCEPT ![nextLog] =
                   [dados_entrada |-> _sanitize_data(dados_entrada),
                    resposta |-> _sanitize_data(None)]]
    /\ UNCHANGED <<livros, atos, objects, req, resp, run, now, sweep, call>>

\* update_log, lines 126-142, for a successful call: the payload is
\* sanitized when it is passed under the key 'resposta', and the row takes
\* the fields of update_data
CompleteEntry(id, key, payload) ==
    /\ ledger[id].status # LogNone
    /\ ledger' = update_log(id, LogConcluido, FALSE)
    /\ dados' = [dados EXCEPT ![id].resposta =
                   IF key = "resposta" THEN _sanitize_data(payload) ELSE payload]
    /\ UNCHANGED <<livros, atos, objects, req, resp, run, nextLog, now, sweep, call>>

LedgerNext ==
    \/ \E d \in LedgerPayloads : BeginEntry(d)
    \/ \E id \in LogIds, key \in ResponseKeys, d \in LedgerPayloads : CompleteEntry(id, key, d)

LedgerSpec == Init /\ [][LedgerNext]_vars

\* ------------------------------------------------- prompt sanitization
Digits == {"0", "1", "2", "3", "4", "5", "6", "7", "8", "9"}
Letters == {UpperCase[i] : i \in 1..Len(UpperCase)} \cup {LowerCase[i] : i \in 1..Len(LowerCase)}
\* \w and \s of Python's re on str
WordChars == Letters \cup Digits \cup {"_"}
Spaces == {" ", "\t", "\n"}

\* a pattern is a sequence of items: the assertion \b, or a character
\* class with the bounds of its (greedy) quantifier; max = -1 is unbounded
B == [b |-> TRUE, cls |-> {}, min |-> 0, max |-> 0]
C(cls, min, max) == [b |-> FALSE, cls |-> cls, min |-> min, max |-> max]
D(n) == C(Digits, n, n)
L(c) == C({c}, 1, 1)

\* \b before position pos: exactly one of the two neighbours is a word character
boundary(text, pos) ==
    ((pos - 1) \in 1..Len(text) /\ text[pos - 1] \in WordChars)
       # (pos \in 1..Len(text) /\ text[pos] \in WordChars)

\* the backtracking matcher of re: the position after the match of items
\* k.. of the pattern at pos, 0 when there is none; an item first takes as
\* many characters as it can and gives them back one at a time
RECURSIVE match_end(_, _, _, _), match_item(_, _, _, _, _)
match_item(text, pat, k, pos, c) ==
    IF c < pat[k].min THEN 0
    ELSE LET fits == \A j \in 0..(c - 1) : text[pos + j] \in pat[k].cls
             end == match_end(text, pat, k + 1, pos + c)
         IN IF fits /\ end # 0 THEN end
            ELSE match_item(text, pat, k, pos, c - 1)
match_end(text, pat, k, pos) ==
    IF k > Len(pat) THEN pos
    ELSE IF pat[k].b
         THEN IF boundary(text, pos) THEN match_end(text, pat, k + 1, pos) ELSE 0
         ELSE LET left == Len(text) - pos + 1
                  most == IF pat[k].max < 0 \/ pat[k].max > left THEN left ELSE pat[k].max
              IN match_item(text, pat, k, pos, most)

\* re.sub(pattern, replacement, text): the leftmost matches, none
\* overlapping, are replaced
RECURSIVE sub_from(_, _, _, _)
sub_from(pattern, replacement, text, pos) ==
    IF pos > Len(text) THEN <<>>
    ELSE LET end == match_end(text, pattern, 1, pos)
         IN IF end # 0
            THEN replacement \o sub_from(pattern, replacement, text, end)
            ELSE <<text[pos]>> \o sub_from(pattern, replacement, text, pos + 1)
sub(pattern, replacement, text) == sub_from(pattern, replacement, text, 1)

EmailLocal == Letters \cup Digits \cup {".", "_", "%", "+", "-"}
EmailDomain == Letters \cup Digits \cup {".", "-"}
EmailTld == Letters \cup {"|"}

\* the six patterns of lines 47-54, in order
patterns == <<
    [pattern |-> <<B, D(3), L("."), D(3), L("."), D(3), L("-"), D(2), B>>,
     replacement |-> <<"[", "C", "P", "F", "]">>],
    [pattern |-> <<B, D(2), L("."), D(3), L("."), D(3), L("/"), D(4), L("-"), D(2), B>>,
     replacement |-> <<"[", "C", "N", "P", "J", "]">>],
    [pattern |-> <<B, C(Digits, 1, 2), L("."), D(3), L("."), D(3), L("-"), D(1), B>>,
     replacement |-> <<"[", "R", "G", "]">>],
    [pattern |-> <<B, D(4), C(Spaces, 0, 1), D(4), C(Spaces, 0, 1), D(4), C(Spaces, 0, 1), D(4), B>>,
     replacement |-> <<"[", "C", "A", "R", "D", "]">>],
    [pattern |-> <<B, C(EmailLocal, 1, -1), L("@"), C(EmailDomain, 1, -1), L("."),
                   C(EmailTld, 2, -1), B>>,
     replacement |-> <<"[", "E", "M", "A", "I", "L", "]">>],
    [pattern |-> <<B, D(5), C({"-"}, 0, 1), D(3), B>>,
     replacement |-> <<"[", "C", "E", "P", "]">>]>>

\* the loop of lines 56-58 over the first n patterns
RECURSIVE sanitize_upto(_, _)
sanitize_upto(prompt, n) ==
    IF n = 0 THEN prompt
    ELSE sub(patterns[n].pattern, patterns[n].replacement, sanitize_upto(prompt, n - 1))

_sanitize_prompt(prompt) ==
    IF prompt = <<>> THEN prompt ELSE sanitize_upto(prompt, Len(patterns))

\* AiUsageLogBase.validate_prompt: a blank prompt is rejected, a long one cut
PromptLimit == 10000
Truncado == <<".", ".", ".", " ", "[", "t", "r", "u", "n", "c", "a", "d", "o", "]">>
blank(v) == \A i \in 1..Len(v) : v[i] \in Spaces
validate_prompt(v) ==
    IF Len(v) > PromptLimit THEN SubSeq(v, 1, PromptLimit) \o Truncado ELSE v

\* one instance of each class of sensitive text
Samples == <<
    <<"1", "2", "3", ".", "4", "5", "6", ".", "7", "8", "9", "-", "0", "1">>,
    <<"1", "2", ".", "3", "4", "5", ".", "6", "7", "8", "/", "0", "0", "0", "1", "-", "9", "5">>,
    <<"1", "2", ".", "3", "4", "5", ".", "6", "7", "8", "-", "9">>,
    <<"1", "2", "3", "4", " ", "5", "6", "7", "8", " ", "9", "0", "1", "2", " ", "3", "4", "5", "6">>,
    <<"a", "n", "a", "@", "c", "a", "r", "t", "o", "r", "i", "o", ".", "b", "r">>,
    <<"1", "2", "3", "4", "5", "-", "6", "7", "8">>>>
\* what precedes and follows it in the prompt
Affixes == {<<>>} \cup {<<c>> : c \in {" ", ":", "a", "_", "7", "."}}
Prompts == {pre \o Samples[n] \o post : pre \in Affixes, post \in Affixes, n \in 1..Len(Samples)}

\* create_log, line 70, on the prompt of a validated AiUsageLogCreate
SanitizePrompt(prompt) ==
    /\ call = NoCall
    /\ ~blank(prompt)
    /\ call' = [fn |-> "_sanitize_prompt", arg |-> prompt,
                ret |-> _sanitize_prompt(validate_prompt(prompt))]
    /\ UNCHANGED <<livros, atos, objects, req, resp, run, ledger, nextLog, now, sweep, dados>>

\* ------------------------------------------------- response adapters
\* The five flows of LangFlowService and the optional fields each adapter
\* reads from outputs[0] with a default.
FlowKinds == {"process_pdf", "extract_act_details", "search_acts",
              "generate_summary", "classify_document"}
OptionalFields(kind) ==
    CASE kind = "process_pdf" -> {"livro_metadata", "atos", "processing_time"}
      [] kind = "extract_act_details" ->
            {"partes", "datas", "valores", "observacoes", "confidence", "tags", "resumo"}
      [] kind = "search_acts" -> {"results", "original_query", "processing_time"}
      [] kind = "generate_summary" ->
            {"summary", "keywords", "confidence", "word_count", "processing_time"}
      [] kind = "classify_document" ->
            {"classification", "confidence", "entities", "categories", "reasoning"}

\* a response body: the outputs array may be missing, empty, or hold one
\* output, which is the set of the optional fields it carries
FlowResponses(kind) ==
    {[has_outputs |-> FALSE, outputs |-> <<>>], [has_outputs |-> TRUE, outputs |-> <<>>]}
       \cup {[has_outputs |-> TRUE, outputs |-> <<main_output>>] :
                main_output \in SUBSET OptionalFields(kind)}

\* response.get("outputs", [])
outputs_of(response) == IF response.has_outputs THEN response.outputs ELSE <<>>

\* raise ValueError(...): the response-shape error
ShapeError == [ok |-> FALSE, value |-> <<>>]
\* the result built from outputs[0]: each field as given, or its default
FromOutput(kind, main_output) ==
    [ok |-> TRUE,
     value |-> [f \in OptionalFields(kind) |-> IF f \in main_output THEN "given" ELSE "default"]]

_process_pdf_response(response) ==
    LET outputs == outputs_of(response)
    IN IF outputs = <<>> THEN ShapeError ELSE FromOutput("process_pdf", outputs[1])

_process_act_details_response(response) ==
    LET outputs == outputs_of(response)
    IN IF outputs = <<>> THEN ShapeError ELSE FromOutput("extract_act_details", outputs[1])

\* lines 298-299: no outputs is answered {"results": [], "total": 0}
_process_search_response(response) ==
    LET outputs == outputs_of(response)
    IN IF outputs = <<>> THEN FromOutput("search_acts", {})
       ELSE FromOutput("search_acts", outputs[1])

_process_summary_response(response) ==
    LET outputs == outputs_of(response)
    IN IF outputs = <<>> THEN ShapeError ELSE FromOutput("generate_summary", outputs[1])

_process_classification_response(response) ==
    LET outputs == outputs_of(response)
    IN IF outputs = <<>> THEN ShapeError ELSE FromOutput("classify_document", outputs[1])

process_response(kind, response) ==
    CASE kind = "process_pdf" -> _process_pdf_response(response)
      [] kind = "extract_act_details" -> _process_act_details_response(response)
      [] kind = "search_acts" -> _process_search_response(response)
      [] kind = "generate_summary" -> _process_summary_response(response)
      [] kind = "classify_document" -> _process_classification_response(response)

\* one of the five flows adapts the response of the service
ProcessResponse(kind, response) ==
    /\ call = NoCall
    /\ call' = [fn |-> kind, arg |-> response, ret |-> process_response(kind, response)]
    /\ UNCHANGED <<livros, atos, objects, req, resp, run, ledger, nextLog, now, sweep, dados>>

\* ------------------------------------------------------ object store
\* The MinIOService operations that address one object, by the S3 call
\* each of them makes.
ObjectOps == {"get_file_info", "download_file", "delete_file", "create_presigned_url"}

\* what the backend is doing when the call arrives: serving, refusing
\* with an error response, or unreachable
BackendFaults == {"none", "AccessDenied", "InternalError", "EndpointConnectionError"}
\* the faults botocore raises as ClientError (an error response was received)
ClientErrors == {"404", "NoSuchKey", "AccessDenied", "InternalError"}

\* s3_client: the error the client raises, "none" when the call returns.
\* generate_presigned_url signs locally and sends nothing; for a key that
\* does not exist head_object raises ClientError with code "404" (the
\* response has no body), get_object raises it with code "NoSuchKey", and
\* delete_object succeeds
s3_client(op, exists, fault) ==
    IF op = "create_presigned_url" THEN "none"
    ELSE IF fault # "none" THEN fault
    ELSE IF exists THEN "none"
    ELSE CASE op = "get_file_info" -> "404"
           [] op = "download_file" -> "NoSuchKey"
           [] op = "delete_file" -> "none"

\* lines 259-290: except ClientError, code '404' -> 404, else 500
get_file_info(error) ==
    IF error = "none" THEN "ok"
    ELSE IF error \notin ClientErrors THEN "raised"
    ELSE IF error = "404" THEN "404" ELSE "500"

\* lines 292-318: same handler as get_file_info
download_file(error) ==
    IF error = "none" THEN "ok"
    ELSE IF error \notin ClientErrors THEN "raised"
    ELSE IF error = "404" THEN "404" ELSE "500"

\* lines 320-338: every ClientError is answered 500
delete_file(error) ==
    IF error = "none" THEN "ok"
    ELSE IF error \notin ClientErrors THEN "raised"
    ELSE "500"

\* lines 223-257: every exception is answered 500
create_presigned_url(error) ==
    IF error = "none" THEN "ok" ELSE "500"

object_op(op, error) ==
    CASE op = "get_file_info" -> get_file_info(error)
      [] op = "download_file" -> download_file(error)
      [] op = "delete_file" -> delete_file(error)
      [] op = "create_presigned_url" -> create_presigned_url(error)

\* one operation on one object reference
ObjectCall(op, exists, fault) ==
    /\ call = NoCall
    /\ call' = [fn |-> op, arg |-> [exists |-> exists, fault |-> fault],
                ret |-> object_op(op, s3_client(op, exists, fault))]
    /\ UNCHANGED <<livros, atos, objects, req, resp, run, ledger, nextLog, now, sweep, dados>>

\* ---------------------------------------------------------- AI client
\* What happens to the one POST of _make_request: no response within the
\* timeout, no connection, a response with a status code (whose body may
\* not be JSON).
Exchanges ==
    [kind : {"timeout", "connect"}, status_code : {0}, json : {TRUE}]
       \cup [kind : {"response"}, status_code : {200, 404, 500}, json : BOOLEAN]

\* the exception classes of the try block and their base classes
Bases(cls) ==
    CASE cls = "ReadTimeout" -> {"ReadTimeout", "TimeoutException", "TransportError",
                                 "RequestError", "Exception"}
      [] cls = "ConnectError" -> {"ConnectError", "TransportError", "RequestError", "Exception"}
      [] cls = "HTTPException" -> {"HTTPException", "Exception"}
      [] cls = "JSONDecodeError" -> {"JSONDecodeError", "Exception"}

\* lines 62-78: what the body of the try raises, "none" when it returns
raised_in_try(x) ==
    CASE x.kind = "timeout" -> "ReadTimeout"
      [] x.kind = "connect" -> "ConnectError"
      [] x.kind = "response" ->
            IF x.status_code = 200
            THEN (IF x.json THEN "none" ELSE "JSONDecodeError")
            ELSE "HTTPException"

\* the handlers of lines 80-98 in their order, with the status each raises
except_clauses == <<[class |-> "TimeoutException", http |-> 504],
                    [class |-> "RequestError", http |-> 503],
                    [class |-> "Exception", http |-> 500]>>

\* LangFlowService._make_request: 200 when the result is returned, else
\* the status of the HTTPException that leaves the method: the first
\* clause that names a base class of the exception raised in the try
_make_request(x) ==
    LET cls == raised_in_try(x)
    IN IF cls = "none" THEN 200
       ELSE LET k == CHOOSE i \in 1..Len(except_clauses) :
                        /\ except_clauses[i].class \in Bases(cls)
                        /\ \A j \in 1..(i - 1) : except_clauses[j].class \notin Bases(cls)
            IN except_clauses[k].http

MakeRequest(x) ==
    /\ call = NoCall
    /\ call' = [fn |-> "_make_request", arg |-> x, ret |-> _make_request(x)]
    /\ UNCHANGED <<livros, atos, objects, req, resp, run, ledger, nextLog, now, sweep, dados>>

\* the pure helpers, each applied to inputs of its own
PureNext ==
    \/ \E data \in Payloads : SanitizeData(data)
    \/ \E prompt \in Prompts : SanitizePrompt(prompt)
    \/ \E kind \in FlowKinds : \E response \in FlowResponses(kind) :
          ProcessResponse(kind, response)
    \/ \E op \in ObjectOps, exists \in BOOLEAN, fault \in BackendFaults :
          ObjectCall(op, exists, fault)
    \/ \E x \in Exchanges : MakeRequest(x)

PureSpec == Init /\ [][PureNext]_vars

\* ------------------------------------------------------------- claims
ActiveRuns(b) == {r \in Runs : run[r].livro_id = b /\ run[r].pc \notin {"free", "done"}}
Returns(r) == run[r].pc \notin {"free", "done"} /\ run'[r].pc = "done"
LogTerminal == {LogConcluido, LogErro}

Edges == {<<SemPdf, Pendente>>, <<Pendente, Processando>>,
          <<Concluido, Processando>>, <<Erro, Processando>>,
          <<Processando, Concluido>>, <<Processando, Erro>>}

\* C1: every change of a Book's processing status follows one of the edges
\* NoDocument->Uploaded, Uploaded->Processing, Completed->Processing,
\* Failed->Processing, Processing->Completed, Processing->Failed, and no
\* upload or reprocess sets Processing on a Book that is already Processing.
C1_StatusEdges ==
    [][\A b \in Livros :
          /\ livros'[b].status # livros[b].status
                => <<livros[b].status, livros'[b].status>> \in Edges
          /\ (resp'.http = 200 /\ resp'.livro_id = b)
                => livros[b].status # Processando]_vars

\* C2: a request that starts processing without force schedules a run only
\* when no run of the Book is active, so at most one run per Book is active.
C2_OneActiveRun ==
    [][\A b \in Livros :
          (resp'.http = 200 /\ resp'.livro_id = b /\ ~resp'.force /\ run' # run)
             => ActiveRuns(b) = {}]_vars

\* C3: a reprocess request without force that finds the Book in status
\* Processing is answered 409, passes no check, changes neither the Book
\* nor its metadata and schedules no run.
C3_ConflictOnProcessing ==
    [][\A b \in Livros : livros[b].status = Processando =>
          /\ (resp'.kind = "reprocess" /\ resp'.livro_id = b /\ ~resp'.force /\ req' = req)
                => (resp'.http = 409 /\ UNCHANGED <<livros, atos, run, ledger>>)
          /\ \A q \in Reqs :
                (req[q].pc = "idle" /\ req'[q].pc = "commit" /\ req'[q].livro_id = b
                   /\ req'[q].kind = "reprocess") => req'[q].force]_vars

\* the number of acts a run has persisted when it takes its last step
CriadosAtReturn(r) == run[r].criados + (IF run[r].pc = "insert" /\ atos' # atos THEN 1 ELSE 0)

\* C4: when a run returns after a successful extraction, the Book's
\* total_atos_extraidos equals the number of acts the run persisted (N-M).
C4_TotalEqualsPersisted ==
    [][\A r \in Runs :
          (Returns(r) /\ run[r].pc \in {"persist", "atos", "insert"})
             => livros'[run[r].livro_id].total_atos_extraidos = CriadosAtReturn(r)]_vars

\* C5: once a run has returned, its ledger row is Success or Error.
C5_LedgerTerminalAfterRun ==
    \A r \in Runs : run[r].pc = "done" => ledger[run[r].ai_log].status \in LogTerminal

\* C6: a ledger row that has reached Success or Error is never written again.
C6_TerminalOnce ==
    [][\A id \in LogIds :
          ledger[id].status \in LogTerminal => ledger'[id] = ledger[id]]_vars

\* C7: a run whose AI call failed returns with the Book in status Failed
\* with an error message and its ledger row in status Error with a message.
C7_AIFailureMarksFailed ==
    [][\A r \in Runs :
          (Returns(r) /\ run[r].result = "fail")
             => /\ livros'[run[r].livro_id].status = Erro
                /\ livros'[run[r].livro_id].metadados_pdf.error # NoMsg
                /\ ledger'[run[r].ai_log].status = LogErro
                /\ ledger'[run[r].ai_log].mensagem_erro]_vars

\* runs are numbered in the order they are scheduled
Superseded(r) ==
    /\ run[r].pc \notin {"free", "done"}
    /\ \E r2 \in Runs : r2 > r /\ run[r2].pc # "free" /\ run[r2].livro_id = run[r].livro_id

\* C8: a step of a run that a newer run of the same Book has superseded
\* changes neither the status nor the metadata of the Book.
C8_SupersededIgnored ==
    [][\A r \in Runs :
          (Superseded(r) /\ run'[r] # run[r])
             => livros'[run[r].livro_id] = livros[run[r].livro_id]]_vars

\* C9: a Book carries an error message if and only if its status is Failed.
C9_ErrorIffFailed ==
    \A b \in Livros : (livros[b].metadados_pdf.error # NoMsg) <=> (livros[b].status = Erro)

\* the ledger rows a step removes
Removed == {id \in Rows : ledger'[id].status = LogNone}

\* C10: a retention sweep removes every ledger row created strictly before
\* its cutoff, no row created at or after it, and returns the number of
\* rows it removed.
C10_SweepExact ==
    [][\A s \in Sweepers : sweep'[s] # sweep[s] =>
          /\ Removed = {id \in Rows : ledger[id].created_at < sweep'[s].cutoff}
          /\ \A id \in LogIds \ Removed : ledger'[id] = ledger[id]
          /\ sweep'[s].logs_to_delete = Cardinality(Removed)]_vars

\* a sweep has removed a row and left a row created at its cutoff or later
C10_Witness ==
    \E s \in Sweepers :
       /\ sweep[s].logs_to_delete >= 1
       /\ \E id \in Rows : ledger[id].created_at >= sweep[s].cutoff
       /\ \E id \in LogIds : id < nextLog /\ id \notin Rows

\* C11: when retention sweeps overlap, the count each sweep returns is the
\* number of rows that sweep itself removed (so the returned counts add up
\* to the rows removed).
C11_OverlappingSweepsCount ==
    [][\A s \in Sweepers :
          (sweep[s].pc = "counted" /\ sweep'[s].pc = "idle")
             => sweep'[s].logs_to_delete = Cardinality(Removed)]_vars

\* the claim's reading of a key that names a sensitive term
NamesSensitiveTerm(key) ==
    \E field \in sensitive_fields :
       \E i \in 0..(Len(key) - Len(field)) :
          \A j \in 1..Len(field) : lower_char(key[i + j]) = field[j]

\* b is a with the value of every sensitive key, at every depth, replaced
\* by the redaction marker and nothing else changed
RECURSIVE RedactedCopy(_, _)
RedactedCopy(a, b) ==
    /\ b.t = a.t
    /\ IF a.t = "val" THEN b = a
       ELSE /\ Len(b.items) = Len(a.items)
            /\ \A i \in 1..Len(a.items) :
                  /\ b.items[i].k = a.items[i].k
                  /\ IF a.t = "dict" /\ NamesSensitiveTerm(a.items[i].k)
                     THEN b.items[i].val = REDACTED
                     ELSE RedactedCopy(a.items[i].val, b.items[i].val)

\* C12: _sanitize_data replaces the value of every key that
\* case-insensitively contains a sensitive term, at every nesting depth
\* (mappings inside lists inside mappings included), by the redaction
\* marker and leaves keys, list lengths and all other values unchanged.
C12_StructuralSanitization ==
    call.fn = "_sanitize_data" => RedactedCopy(call.arg, call.ret)

\* a mapping in a list in a mapping had an upper-case sensitive key redacted
C12_Witness ==
    /\ call.fn = "_sanitize_data"
    /\ call.arg.t = "dict" /\ Len(call.arg.items) = 2
    /\ ~NamesSensitiveTerm(call.arg.items[1].k)
    /\ LET l == call.arg.items[1].val IN
       /\ l.t = "list" /\ Len(l.items) = 1
       /\ LET d == l.items[1].val IN
          /\ d.t = "dict" /\ Len(d.items) = 2
          /\ d.items[1].k = <<"C", "P", "F">>
          /\ call.ret.items[1].val.items[1].val.items[1].val = REDACTED
          /\ call.ret.items[1].val.items[1].val.items[2] = d.items[2]

\* no key that names a sensitive term holds anything but the marker
RECURSIVE Clean(_)
Clean(d) ==
    \A i \in 1..Len(d.items) :
       IF d.t = "dict" /\ NamesSensitiveTerm(d.items[i].k)
       THEN d.items[i].val = REDACTED
       ELSE Clean(d.items[i].val)

Shapes == <<
    <<"d", "d", "d", ".", "d", "d", "d", ".", "d", "d", "d", "-", "d", "d">>,
    <<"d", "d", ".", "d", "d", "d", ".", "d", "d", "d", "/", "d", "d", "d", "d", "-", "d", "d">>,
    <<"d", "d", ".", "d", "d", "d", ".", "d", "d", "d", "-", "d">>,
    <<"d", "d", "d", "d", " ", "d", "d", "d", "d", " ", "d", "d", "d", "d", " ", "d", "d", "d", "d">>,
    <<"a", "n", "a", "@", "c", "a", "r", "t", "o", "r", "i", "o", ".", "b", "r">>,
    <<"d", "d", "d", "d", "d", "-", "d", "d", "d">>>>
HasShape(str, shape) ==
    /\ Len(str) = Len(shape)
    /\ \A i \in 1..Len(shape) :
          IF shape[i] = "d" THEN str[i] \in Digits ELSE str[i] = shape[i]
Placeholders == <<<<"[", "C", "P", "F", "]">>, <<"[", "C", "N", "P", "J", "]">>, <<"[", "R", "G", "]">>, <<"[", "C", "A", "R", "D", "]">>, <<"[", "E", "M", "A", "I", "L", "]">>, <<"[", "C", "E", "P", "]">>>>

\* C14: a prompt that contains a substring of the form ddd.ddd.ddd-dd is
\* stored without that substring, and a text of each of the six classes
\* (standing between blanks or the ends of the prompt) is replaced by the
\* placeholder of its class, the six placeholders being distinct.
C14_PromptSanitized ==
    call.fn = "_sanitize_prompt" =>
       /\ \A i \in 1..(Len(call.arg) - Len(Shapes[1]) + 1) :
             LET cpf == SubSeq(call.arg, i, i + Len(Shapes[1]) - 1)
             IN HasShape(cpf, Shapes[1]) => ~Contains(call.ret, cpf)
       /\ \A n \in 1..Len(Shapes) :
             \A i \in 1..(Len(call.arg) - Len(Shapes[n]) + 1) :
                LET j == i + Len(Shapes[n]) - 1
                IN (/\ HasShape(SubSeq(call.arg, i, j), Shapes[n])
                    /\ (i = 1 \/ call.arg[i - 1] = " ")
                    /\ (j = Len(call.arg) \/ call.arg[j + 1] = " "))
                      => Contains(call.ret, Placeholders[n])
       /\ \A m, n \in 1..Len(Placeholders) : m # n => Placeholders[m] # Placeholders[n]

\* the runs that have begun to execute
Started == {r \in Runs : run[r].pc \notin {"free", "scheduled"}}

UploadEffects == <<livros, atos, objects, req, run, ledger>>

\* C16 as stated: an upload for a book id that does not exist is answered
\* NotFound, stores no object, changes no Book and schedules no run.
C16_UnknownBookNotFound ==
    [][\A id \in LivroIds \ Livros :
          (resp'.kind = "upload" /\ resp'.livro_id = id)
             => (resp'.http = 404 /\ UNCHANGED UploadEffects)]_vars

\* C16 amended: an upload of a PDF for a book id that does not exist is
\* answered NotFound, an upload of another file the validation error; in
\* both cases no object is stored, no Book changed and no run scheduled.
C16_UnknownBookRejected ==
    [][\A id \in LivroIds \ Livros : \A q \in Reqs, is_pdf, immediate \in BOOLEAN :
          UploadBegin(q, id, is_pdf, immediate)
             => /\ resp'.kind = "upload" /\ resp'.livro_id = id
                /\ resp'.http = (IF is_pdf THEN 404 ELSE 400)
                /\ UNCHANGED UploadEffects]_vars

\* an upload for an unknown book has been answered NotFound
C16_Witness ==
    resp.kind = "upload" /\ resp.livro_id \notin Livros /\ resp.http = 404

\* C17: a Book without document leaves that status only by a successful
\* upload; a reprocess request on it is rejected, changes nothing and
\* schedules no run.
C17_NoDocumentOnlyUpload ==
    [][\A b \in Livros : livros[b].status = SemPdf =>
          /\ livros'[b].status # SemPdf
                => (resp'.kind = "upload" /\ resp'.livro_id = b /\ resp'.http = 200)
          /\ (resp'.kind = "reprocess" /\ resp'.livro_id = b)
                => (resp'.http # 200 /\ UNCHANGED <<livros, atos, run, ledger>>)
          /\ \A q \in Reqs :
                (req[q].pc = "idle" /\ req'[q].pc = "commit" /\ req'[q].livro_id = b)
                   => req'[q].kind = "upload"]_vars

\* C18: a status read, in any state and any number of times, changes no
\* Book, Act or ledger row, stores nothing and schedules nothing.
C18_GetStatusPure ==
    [][resp'.kind = "status"
          => UNCHANGED <<livros, atos, objects, req, run, ledger, nextLog, dados, sweep>>]_vars

\* the status of a Book was read while a run of it was waiting for the AI
C18_Witness ==
    /\ resp.kind = "status" /\ resp.http = 200
    /\ livros[resp.livro_id].status = Processando
    /\ \E r \in Runs : run[r].pc = "call" /\ run[r].livro_id = resp.livro_id

C19_EmptyOutputsIsShapeError ==
    call.fn \in FlowKinds =>
       IF ~call.arg.has_outputs \/ call.arg.outputs = <<>>
       THEN ~call.ret.ok
       ELSE /\ call.ret.ok
            /\ \A f \in OptionalFields(call.fn) :
                  call.ret.value[f] = (IF f \in call.arg.outputs[1] THEN "given" ELSE "default")

\* C21: for each operation that addresses an object by reference, an
\* object that does not exist is answered NotFound (404) when the backend
\* is serving, and no other backend failure is answered NotFound.
C21_MissingObjectNotFound ==
    call.fn \in ObjectOps =>
       /\ (~call.arg.exists /\ call.arg.fault = "none") => call.ret = "404"
       /\ call.arg.fault # "none" => call.ret # "404"

\* the step run r is about to take writes a terminal status to its Livro
WritesTerminal(r) ==
    LET l == livros[run[r].livro_id]
    IN CASE run[r].pc = "persist" -> run[r].meta_ok
         [] run[r].pc = "h_status" -> update_processing_status(l, Erro, NoMsg, MsgIA).ok
         [] run[r].pc = "outer" -> update_processing_status(l, Erro, NoMsg, MsgBG).ok
         [] OTHER -> FALSE

\* C22: when a run returns, it has written a terminal status (Completed or
\* Failed) to its Book exactly once.
C22_OutcomeReportedOnce ==
    [][\A r \in Runs :
          Returns(r) => run[r].reports + (IF WritesTerminal(r) THEN 1 ELSE 0) = 1]_vars

\* the step run r takes finishes the act at its position of the list
FinishesAto(r) ==
    /\ run[r].pc \in {"atos", "insert"}
    /\ run'[r] # run[r]
    /\ run'[r].pc # "insert"

\* every act of the list is handled, and a well-formed one is in the Book
\* once it has been handled
ActsIndependent ==
    \A r \in Runs : FinishesAto(r) =>
       LET a == run[r].atos[run[r].i]
       IN /\ (a # Malformed) => (atos'[run[r].livro_id][a] >= 1)
          /\ Returns(r) => (run[r].i = Len(run[r].atos))

\* C23: a failure to persist one act of a response does not stop the
\* acts after it from being persisted, and the run returns with the Book
\* in status Completed and its ledger row in status Success.
C23_ActsPersistedIndependently ==
    [][/\ ActsIndependent
       /\ \A r \in Runs : (FinishesAto(r) /\ Returns(r)) =>
             /\ livros'[run[r].livro_id].status = Concluido
             /\ ledger'[run[r].ai_log].status = LogConcluido]_vars

\* C24: whenever a run is at its AI call, its ledger row exists and is
\* pending, and every ledger row is created in the pending status.
C24_PendingBeforeCall ==
    [][/\ \A r \in Runs : run'[r].pc = "call" =>
             /\ run'[r].ai_log \in LogIds
             /\ ledger'[run'[r].ai_log].status = LogIniciado
       /\ \A id \in LogIds :
             (ledger[id].status = LogNone /\ ledger'[id].status # LogNone)
                => ledger'[id].status = LogIniciado]_vars

\* a run is at its AI call while the row of an earlier run is terminal
C24_Witness ==
    \E r \in Runs :
       /\ run[r].pc = "call"
       /\ ledger[run[r].ai_log].status = LogIniciado
       /\ \E id \in LogIds : ledger[id].status \in LogTerminal

\* C25: a run reaches its AI call once, from the scheduler, and a run is
\* scheduled only by an upload or a reprocess request that is answered 200;
\* nothing schedules a run again after it has failed.
C25_NoAutomaticRetry ==
    [][\A r \in Runs :
          /\ (run'[r].pc = "call" /\ run[r].pc # "call") => run[r].pc = "scheduled"
          /\ (run[r].pc = "call" /\ run'[r] # run[r]) => run'[r].pc \in {"persist", "h_status"}
          /\ (run'[r].pc = "scheduled" /\ run[r].pc # "scheduled")
                => /\ run[r].pc = "free"
                   /\ resp'.http = 200
                   /\ resp'.kind \in {"upload", "reprocess"}]_vars

\* a run has failed and returned, the Book is Failed, and no run is active
\* although a slot is free
C25_Witness ==
    /\ \E r \in Runs : run[r].pc = "done" /\ ledger[run[r].ai_log].status = LogErro
                          /\ livros[run[r].livro_id].status = Erro
    /\ \A r \in Runs : run[r].pc \in {"free", "done"}
    /\ FreeRuns # {}

\* C26: the AI client answers a timeout with the timeout error (504), a
\* connection failure with the unavailable error (503) and a response
\* with a non-success status with the upstream error (502), never with
\* one of the others or with the internal error (500).
C26_DistinctErrorKinds ==
    call.fn = "_make_request" =>
       /\ call.arg.kind = "timeout" => call.ret = 504
       /\ call.arg.kind = "connect" => call.ret = 503
       /\ (call.arg.kind = "response" /\ call.arg.status_code # 200) => call.ret = 502

\* C27: a run that returns through its failure handler leaves the Book
\* with an error message, or its ledger row in status Error, or both.
C27_FailureLeavesTrace ==
    [][\A r \in Runs :
          (Returns(r) /\ run[r].pc = "outer")
             => \/ livros'[run[r].livro_id].metadados_pdf.error # NoMsg
                \/ ledger'[run[r].ai_log].status = LogErro]_vars

\* C28: a Book in status Processing eventually is in status Completed or
\* Failed, whether or not its upload asked for immediate processing.
C28_ProcessingEnds ==
    \A b \in Livros :
       (livros[b].status = Processando) ~> (livros[b].status \in {Concluido, Erro})

\* C29: the step by which a run makes its Book Completed leaves the run
\* with no act still to persist.
C29_CompletedAfterActs ==
    [][\A r \in Runs :
          (/\ run'[r] # run[r]
           /\ livros[run[r].livro_id].status # Concluido
           /\ livros'[run[r].livro_id].status = Concluido)
             => run'[r].pc \notin {"atos", "insert"}]_vars

\* a step of run r at or after the failure of its AI call
FailedStep(r) ==
    /\ run'[r] # run[r]
    /\ run[r].result = "fail" \/ run'[r].result = "fail"

\* C30: a run whose AI call fails creates no act and changes neither the
\* acts of the Book nor its processing metadata; an act is created only by
\* a run that has received a successful extraction response.
C30_FailedRunCreatesNothing ==
    [][/\ \A r \in Runs : FailedStep(r) =>
             /\ atos' = atos
             /\ \A b \in Livros :
                   livros'[b].total_atos_extraidos = livros[b].total_atos_extraidos
       /\ atos' # atos =>
             \E r \in Runs : run[r].pc = "insert" /\ run[r].result = "ok" /\ run'[r] # run[r]]_vars

\* a run has failed on a Book that holds acts and metadata of an earlier run
C30_Witness ==
    \E r \in Runs :
       /\ run[r].pc = "outer" /\ run[r].result = "fail"
       /\ livros[run[r].livro_id].status = Erro
       /\ livros[run[r].livro_id].total_atos_extraidos >= 1
       /\ \E n \in 1..MaxNumero : atos[run[r].livro_id][n] >= 1

====
